---- MODULE Spec2Model ----
(***************************************************************************)
(* AssociationChart: the chart module (src/chart.js, the Pie/Bubble        *)
(* version that starts at line 263) driven by its controller               *)
(* (src/controller.js).  What the page shows is kept as far as the chart   *)
(* decides it: the list handed to drawPie or drawBubbles, and the detail   *)
(* text; the slider's hint text (updateHint) is left out.                  *)
(*                                                                         *)
(* A second page, the viewer (src/unnamed/part_000, viewer.js, the version *)
(* that starts at line 1) with its weight editor (src/editor.js), has its  *)
(* own variables and its own specification, ViewerSpec.  Each page leaves  *)
(* the other's variables alone.                                            *)
(*                                                                         *)
(* Numbers.  Link weights and thresholds are JavaScript doubles; here they *)
(* are integers counting hundredths (0.8 is 80, the clamp limit 0.96 is    *)
(* 96).  The weights of the input documents are even, so l.w / 2 is exact. *)
(* Sums are exact: binary floating-point rounding is not modelled.         *)
(*                                                                         *)
(* Strings.  A node id is a crypto.randomUUID() string: the i-th node      *)
(* built gets UUIDS[i].  A component id is the group name g, modelled      *)
(* <<g>>, or the template string `${g} - ${idx}`, modelled <<g, idx>>.     *)
(***************************************************************************)
EXTENDS Integers, Sequences, FiniteSets, TLC

VARIABLES
  pc,           \* controller.js boot(): "loading", "running" or "failed"
  nodes,        \* chart.js  let nodes = []
  links,        \* chart.js  let links = []
  nodeById,     \* chart.js  let nodeById = new Map()
  threshold,    \* chart.js  let threshold = 0
  currentView,  \* chart.js  let currentView = "pie"
  comps,        \* the array comps of the latest buildComponents call, at its return
  drawn,        \* what the latest render() handed to drawPie / drawBubbles
  prev,         \* history: the buildComponents call before the latest one, if it
                \* read the same nodes and links (NoCall otherwise)
  lastT,        \* history: the argument of the latest setThreshold call and
                \* its caller ("onInput" of controller.js, or "page")
  detail,       \* controller.js  detail.textContent
  fetched,      \* viewer.js  the fetch chain: "pending", "done" or "failed"
  windowData,   \* window.data
  controller,   \* viewer.js  controller.currentView, controller.currentThreshold
  snapshot,     \* viewer.js  the clusters of the latest clusterData call
  svg,          \* viewer.js  what is drawn in #viz: the view and its clickable
                \* elements, each with the arguments its click hands to editWeight
  viewerDetail, \* viewer.js  the text of #detail
  popover,      \* editor.js  popoverEl: "absent", or its style.display
  currentAssocId, \* editor.js  let currentAssocId = null
  onDoneCb,     \* editor.js  let onDoneCb = null
  originalVal,  \* editor.js  let originalVal = 0
  download,     \* the document of the latest triggerDownload
  log           \* history: the calls made by the latest handler, in order

chartVars == <<pc, nodes, links, nodeById, threshold, currentView, comps, drawn,
               prev, lastT, detail>>

viewerVars == <<fetched, windowData, controller, snapshot, svg, viewerDetail,
                popover, currentAssocId, onDoneCb, originalVal, download, log>>

vars == <<pc, nodes, links, nodeById, threshold, currentView, comps, drawn,
          prev, lastT, detail, fetched, windowData, controller, snapshot, svg,
          viewerDetail, popover, currentAssocId, onDoneCb, originalVal,
          download, log>>

----------------------------------------------------------------------------
(* Bounds of the model and the inputs drawn from them *)

MaxLinks == 2

\* The label lists (data.raw, as its tokens) of the input documents: none, one
\* and two labels, three labels of one group in two orders, labels of two
\* groups in two orders, a label given twice and an empty token.
RawInputs ==
  { <<>>,
    <<"apple">>,
    <<"apple", "bread">>,
    <<"apple", "bread", "soup">>,
    <<"soup", "apple", "bread">>,
    <<"apple", "doctor", "soup">>,
    <<"apple", "bread", "apple", "soup">>,
    <<"bread", "", "soup">>,
    <<"doctor", "soup", "bread", "apple">> }

\* The triples [a, b, w] of data.links: links inside one group at weights below,
\* at and above the thresholds, a weight of 0, a self-loop and a link that
\* crosses two groups.  A document may hold a triple twice.
LinkTriples ==
  { <<"apple", "bread", 80>>,
    <<"bread", "soup", 30>>,
    <<"bread", "soup", 96>>,
    <<"apple", "bread", 0>>,
    <<"apple", "apple", 30>>,
    <<"soup", "doctor", 96>> }

\* Arguments of the exported setThreshold(t): below, inside and above the range.
ThresholdArgs == {-10, 50, 120}

\* Values of the slider (hundredths of its [0..1] range).
SliderValues == {0, 50, 100}

ViewArgs == {"pie", "bubbles", "bubble", "force"}

SeqsUpTo(S, n) == UNION { [1..k -> S] : k \in 0..n }

LinkInputs == SeqsUpTo(LinkTriples, MaxLinks)

----------------------------------------------------------------------------
(* Helpers *)

Range(s) == { s[i] : i \in 1..Len(s) }

Undefined == "undefined"

Null == <<>>

NoDraw == [view |-> "none", comps |-> <<>>]

NoCall == [called |-> FALSE]

UUIDS == <<"u1", "u2", "u3", "u4", "u5", "u6">>

\* The labels in the order of String's default sort (UTF-16 code units).
LabelOrder == <<"apple", "bread", "doctor", "soup">>

LabelRank(l) == CHOOSE i \in 1..Len(LabelOrder) : LabelOrder[i] = l

RECURSIVE SortLabels(_)
SortLabels(S) ==
  IF S = {} THEN <<>>
  ELSE LET m == CHOOSE x \in S : \A y \in S : LabelRank(x) <= LabelRank(y)
       IN  <<m>> \o SortLabels(S \ {m})

RECURSIVE SumSeq(_, _)
SumSeq(s, i) == IF i > Len(s) THEN 0 ELSE s[i] + SumSeq(s, i + 1)

----------------------------------------------------------------------------
(* chart.js *)

GROUPS ==
  << "Food", "Health", "Emotion", "Play", "Safety", "Learning", "Body",
     "Routine", "Social", "Rest" >>

\* The regular expressions of guessGroup, applied to the labels of the model:
\* /...|apple|soup|bread|.../ is the first test, /...|doctor|.../ the second,
\* and a label no test matches is "Routine".
guessGroup(w) ==
  CASE w \in {"apple", "soup", "bread"} -> "Food"
    [] w = "doctor" -> "Health"
    [] OTHER -> "Routine"

\* [...new Set(tokens)]: the first occurrence of each token, in order.
RECURSIVE Unique(_, _, _)
Unique(s, i, acc) ==
  IF i > Len(s) THEN acc
  ELSE Unique(s, i + 1, IF s[i] \in Range(acc) THEN acc ELSE Append(acc, s[i]))

\* raw is given as the tokens of raw.split(/[\n,]+/).map(trim); filter(Boolean)
\* drops the empty ones.
buildNodesFromRaw(raw) ==
  LET unique == Unique(SelectSeq(raw, LAMBDA s : s # ""), 1, <<>>)
  IN  [ i \in 1..Len(unique) |->
          [id |-> UUIDS[i], label |-> unique[i], baseGroup |-> guessGroup(unique[i])] ]

\* Map label -> id; get() of a label that is no key is undefined.
indexByLabel(ns, a) ==
  IF \E i \in 1..Len(ns) : ns[i].label = a
  THEN ns[CHOOSE i \in 1..Len(ns) :
            /\ ns[i].label = a
            /\ \A j \in 1..Len(ns) : ns[j].label = a => j <= i].id
  ELSE Undefined

mapNodeById(ns) ==
  [ id \in { ns[i].id : i \in 1..Len(ns) } |->
      ns[CHOOSE i \in 1..Len(ns) :
            /\ ns[i].id = id
            /\ \A j \in 1..Len(ns) : ns[j].id = id => j <= i] ]

\* linkTriples.map(...).filter((l) => l.source && l.target)
mapLinks(ns, linkTriples) ==
  SelectSeq(
    [ i \in 1..Len(linkTriples) |->
        [ source |-> indexByLabel(ns, linkTriples[i][1]),
          target |-> indexByLabel(ns, linkTriples[i][2]),
          w |-> linkTriples[i][3] ] ],
    LAMBDA l : l.source # Undefined /\ l.target # Undefined)

(* ---- buildComponents(th), lines 384-443 ---- *)

\* Mutant of gNodesOf: the filter on baseGroup is lost.
gNodesAnyGroup(ns, g) == [ i \in 1..Len(ns) |-> ns[i].id ]

\* nodes.filter((n) => n.baseGroup === g).map((n) => n.id)
gNodesOf(ns, g) ==
  LET sel == SelectSeq(ns, LAMBDA n : n.baseGroup = g)
  IN  [ i \in 1..Len(sel) |-> sel[i].id ]

\* Mutant of AtLeast: l.w > th.
AtLeastStrict(w, th) == w > th

\* Mutant of AtLeast: the comparison is turned round.
AtMost(w, th) == w <= th

\* l.w >= th
AtLeast(w, th) == w >= th

\* links.filter((l) => gSet.has(l.source) && gSet.has(l.target) && l.w >= th)
gLinksOf(ls, gSet, th) ==
  SelectSeq(ls, LAMBDA l : l.source \in gSet /\ l.target \in gSet /\ AtLeast(l.w, th))

\* Set.add: a Set iterates in insertion order and holds a value once.
SetAdd(s, x) == IF x \in Range(s) THEN s ELSE Append(s, x)

\* gLinks.forEach(({source, target}) => { adj.get(source).add(target);
\*                                        adj.get(target).add(source); })
RECURSIVE adjOf(_, _, _)
adjOf(adj, gLinks, i) ==
  IF i > Len(gLinks) THEN adj
  ELSE LET s == gLinks[i].source
           t == gLinks[i].target
           a1 == [adj EXCEPT ![s] = SetAdd(@, t)]
           a2 == [a1 EXCEPT ![t] = SetAdd(@, s)]
       IN  adjOf(a2, gLinks, i + 1)

\* for (const nei of adj.get(cur)) if (!seen.has(nei)) { seen.add(nei);
\*   stack.push(nei); collect.add(nei); }
RECURSIVE visitNeighbours(_, _, _)
visitNeighbours(neis, j, st) ==
  IF j > Len(neis) THEN st
  ELSE IF neis[j] \in st.seen THEN visitNeighbours(neis, j + 1, st)
  ELSE visitNeighbours(neis, j + 1,
         [ stack |-> Append(st.stack, neis[j]),
           seen |-> st.seen \cup {neis[j]},
           collect |-> st.collect \cup {neis[j]} ])

\* while (stack.length) { const cur = stack.pop(); ... }
RECURSIVE traverse(_, _)
traverse(adj, st) ==
  IF st.stack = <<>> THEN st
  ELSE LET cur == st.stack[Len(st.stack)]
           popped == [st EXCEPT !.stack = SubSeq(st.stack, 1, Len(st.stack) - 1)]
       IN  traverse(adj, visitNeighbours(adj[cur], 1, popped))

\* Mutant of compId: the index is used also for a component that is its
\* whole group.
compIdAlwaysIndexed(g, whole, idx) == <<g, idx>>

\* collect.size === gNodes.length ? g : `${g} - ${++idx}`
compId(g, whole, idx) == IF whole THEN <<g>> ELSE <<g, idx>>

\* Mutant of groupComps: seen is not carried from one traversal to the next
\* (only the start node is marked).
RECURSIVE groupCompsLocalSeen(_, _, _, _, _, _)
groupCompsLocalSeen(g, gNodes, adj, i, seen, idx) ==
  IF i > Len(gNodes) THEN <<>>
  ELSE IF gNodes[i] \in seen THEN groupCompsLocalSeen(g, gNodes, adj, i + 1, seen, idx)
  ELSE LET id == gNodes[i]
           st == traverse(adj, [ stack |-> <<id>>, seen |-> seen \cup {id},
                                 collect |-> {id} ])
           whole == Cardinality(st.collect) = Len(gNodes)
           idx1 == IF whole THEN idx ELSE idx + 1
       IN  << [id |-> compId(g, whole, idx1), base |-> g, ids |-> st.collect] >>
             \o groupCompsLocalSeen(g, gNodes, adj, i + 1, seen \cup {id}, idx1)

\* for (const id of gNodes) { if (seen.has(id)) continue; ...; comps.push(...) }
RECURSIVE groupComps(_, _, _, _, _, _)
groupComps(g, gNodes, adj, i, seen, idx) ==
  IF i > Len(gNodes) THEN <<>>
  ELSE IF gNodes[i] \in seen THEN groupComps(g, gNodes, adj, i + 1, seen, idx)
  ELSE LET id == gNodes[i]
           st == traverse(adj, [ stack |-> <<id>>, seen |-> seen \cup {id},
                                 collect |-> {id} ])
           whole == Cardinality(st.collect) = Len(gNodes)
           idx1 == IF whole THEN idx ELSE idx + 1
       IN  << [id |-> compId(g, whole, idx1), base |-> g, ids |-> st.collect] >>
             \o groupComps(g, gNodes, adj, i + 1, st.seen, idx1)

\* The body of for (const g of GROUPS), lines 387-421.
compsOfGroup(ns, ls, g, th) ==
  LET gNodes == gNodesOf(ns, g)
      gSet == Range(gNodes)
      gLinks == gLinksOf(ls, gSet, th)
      adj == adjOf([ id \in gSet |-> <<>> ], gLinks, 1)
  IN  IF Len(gNodes) = 0 THEN <<>>
      ELSE groupComps(g, gNodes, adj, 1, {}, 0)

\* for (const g of GROUPS) { ... }: comps at line 423
RECURSIVE allComps(_, _, _, _)
allComps(ns, ls, th, gi) ==
  IF gi > Len(GROUPS) THEN <<>>
  ELSE compsOfGroup(ns, ls, GROUPS[gi], th) \o allComps(ns, ls, th, gi + 1)

\* comps.find((c) => c.ids.has(nid))?.id ?? null
compOf(cs, nid) ==
  IF \E i \in 1..Len(cs) : nid \in cs[i].ids
  THEN cs[CHOOSE i \in 1..Len(cs) :
            /\ nid \in cs[i].ids
            /\ \A j \in 1..Len(cs) : nid \in cs[j].ids => i <= j].id
  ELSE Null

\* Mutant of Half: the weight is not halved.
HalfWhole(w) == w

\* l.w / 2
Half(w) == w \div 2

\* Mutant of addLink: a link that crosses two components adds to the source's
\* component only.
addLinkOneSide(cs, value, l) ==
  LET ca == compOf(cs, l.source)
      cb == compOf(cs, l.target)
  IN  IF ca = Null \/ cb = Null THEN value
      ELSE IF ca = cb THEN [value EXCEPT ![ca] = @ + l.w]
      ELSE [value EXCEPT ![ca] = @ + Half(l.w)]

\* Mutant of addLink: a link that crosses two components adds nothing.
addLinkInternalOnly(cs, value, l) ==
  LET ca == compOf(cs, l.source)
      cb == compOf(cs, l.target)
  IN  IF ca = Null \/ cb = Null THEN value
      ELSE IF ca = cb THEN [value EXCEPT ![ca] = @ + l.w]
      ELSE value

\* One turn of for (const l of links), lines 428-435.
addLink(cs, value, l) ==
  LET ca == compOf(cs, l.source)
      cb == compOf(cs, l.target)
  IN  IF ca = Null \/ cb = Null THEN value
      ELSE IF ca = cb THEN [value EXCEPT ![ca] = @ + l.w]
      ELSE LET v1 == [value EXCEPT ![ca] = @ + Half(l.w)]
           IN  [v1 EXCEPT ![cb] = @ + Half(l.w)]

RECURSIVE valueOf(_, _, _, _)
valueOf(cs, ls, value, i) ==
  IF i > Len(ls) THEN value
  ELSE valueOf(cs, ls, addLink(cs, value, ls[i]), i + 1)

\* for (const c of comps) { c.value = +(value.get(c.id) || 0);
\*   c.items = [...c.ids].map((id) => nodeById.get(id).label).sort(); }
withValues(cs, value, nb) ==
  [ i \in 1..Len(cs) |->
      [ id |-> cs[i].id, base |-> cs[i].base, ids |-> cs[i].ids,
        value |-> value[cs[i].id],
        items |-> SortLabels({ nb[n].label : n \in cs[i].ids }) ] ]

\* Lines 424-441: value = new Map(comps.map((c) => [c.id, 0])), the loop over
\* links, then value and items stored in every component.
aggregate(cs, ls, nb) ==
  withValues(cs, valueOf(cs, ls, [ id \in { cs[i].id : i \in 1..Len(cs) } |-> 0 ], 1), nb)

\* comps at line 441: every component, with its value and its items.
valuedComps(ns, ls, nb, th) == aggregate(allComps(ns, ls, th, 1), ls, nb)

\* Mutant of visible: c.value >= 0.
visibleOrZero(c) == c.value >= 0

\* (c) => c.value > 0
visible(c) == c.value > 0

\* return comps.filter((c) => c.value > 0)
filterComps(cs) == SelectSeq(cs, visible)

buildComponentsOf(ns, ls, nb, th) == filterComps(valuedComps(ns, ls, nb, th))

\* buildComponents reads the module's nodes, links and nodeById.
buildComponents(th) == buildComponentsOf(nodes, links, nodeById, th)

(* ---- render and the exported functions, lines 566-595 ---- *)

\* render(): buildComponents(threshold), then drawPie or drawBubbles.
\* comps' is the array at line 441, of which line 442 returns the filtered copy.
render(ns, ls, nb, th, view) ==
  /\ comps' = valuedComps(ns, ls, nb, th)
  /\ drawn' = [ view |-> IF view = "pie" THEN "pie" ELSE "bubbles",
                comps |-> filterComps(comps') ]

MaxThreshold == 96

\* Mutant of clamp: Math.min(0.96, t), the lower limit lost.
clampAbove(t) == IF t < MaxThreshold THEN t ELSE MaxThreshold

\* Math.max(0, Math.min(0.96, t))
clamp(t) ==
  LET m == IF t < MaxThreshold THEN t ELSE MaxThreshold
  IN  IF m > 0 THEN m ELSE 0

\* view === "bubbles" ? "bubbles" : "pie"
viewOf(view) == IF view = "bubbles" THEN "bubbles" ELSE "pie"

\* The latest buildComponents call, as the next call's history (kept once the
\* document is loaded).
latestCall ==
  IF pc # "running" THEN NoCall
  ELSE [called |-> TRUE, th |-> threshold, comps |-> comps, returned |-> drawn.comps]

\* Mutant of setThreshold: the filtered links are stored in links
\* (links = links.filter((l) => l.w >= th) in place of a local list).
setThresholdStoringLinks(t) ==
  /\ threshold' = clamp(t)
  /\ render(nodes, links, nodeById, clamp(t), currentView)
  /\ prev' = latestCall
  /\ links' = SelectSeq(links, LAMBDA l : AtLeast(l.w, clamp(t)))
  /\ UNCHANGED <<nodes, nodeById, currentView>>

\* export function setThreshold(t)
setThreshold(t) ==
  /\ threshold' = clamp(t)
  /\ render(nodes, links, nodeById, clamp(t), currentView)
  /\ prev' = latestCall
  /\ UNCHANGED <<nodes, links, nodeById, currentView>>

\* export function setView(view)
setView(view) ==
  /\ currentView' = viewOf(view)
  /\ render(nodes, links, nodeById, threshold, viewOf(view))
  /\ prev' = latestCall
  /\ UNCHANGED <<nodes, links, nodeById, threshold, lastT>>

\* export function initChart({raw, links: linkTriples, onDetail}).  boot() is
\* its only caller and calls setThreshold, which renders again, in the same
\* task: the result of the render() of line 584, at the threshold still
\* stored, is kept as the history of that second call.
initChart(raw, linkTriples) ==
  /\ nodes' = buildNodesFromRaw(raw)
  /\ nodeById' = mapNodeById(nodes')
  /\ links' = mapLinks(nodes', linkTriples)
  /\ prev' = LET first == valuedComps(nodes', links', nodeById', threshold)
             IN  [ called |-> TRUE, th |-> threshold, comps |-> first,
                   returned |-> filterComps(first) ]

----------------------------------------------------------------------------
(* controller.js *)

RangeMax == 96

\* d3.scaleLinear().domain([0, 1]).range([0, 0.96]); the slider values of the
\* model are multiples of 0.25, whose images are whole hundredths.
toThreshold(s) == (RangeMax * s) \div 100

ClickASlice == "Click a slice to see details"

FailedToLoad == "Failed to load data.json"

\* boot() with every await fulfilled, for the document {raw, links: linkTriples}
\* and the slider at s: initChart, the slider wired, and the first onInput(),
\* which calls setThreshold(toThreshold(s)).
BootWith(raw, linkTriples, s) ==
  /\ pc = "loading"
  /\ pc' = "running"
  /\ initChart(raw, linkTriples)
  /\ lastT' = [called |-> TRUE, t |-> toThreshold(s), by |-> "onInput"]
  /\ threshold' = clamp(toThreshold(s))
  /\ render(nodes', links', nodeById', threshold', currentView)
  /\ detail' = ClickASlice
  /\ UNCHANGED currentView
  /\ UNCHANGED viewerVars

BootLoaded ==
  \E raw \in RawInputs, linkTriples \in LinkInputs, s \in SliderValues :
    BootWith(raw, linkTriples, s)

\* boot() rejected (fetch or res.json() failed): the catch of lines 39-42.
BootFailed ==
  /\ pc = "loading"
  /\ pc' = "failed"
  /\ detail' = FailedToLoad
  /\ UNCHANGED <<nodes, links, nodeById, threshold, currentView, comps, drawn,
                 prev, lastT>>
  /\ UNCHANGED viewerVars

\* Mutant of onInput: the listener is wired when the module is loaded, not by
\* boot().
onInputUnwired(s) ==
  /\ setThreshold(toThreshold(s))
  /\ lastT' = [called |-> TRUE, t |-> toThreshold(s), by |-> "onInput"]
  /\ detail' = ClickASlice
  /\ UNCHANGED pc
  /\ UNCHANGED viewerVars

\* onInput with the slider at s; the listener is wired by boot().
onInput(s) ==
  /\ pc = "running"
  /\ setThreshold(toThreshold(s))
  /\ lastT' = [called |-> TRUE, t |-> toThreshold(s), by |-> "onInput"]
  /\ detail' = ClickASlice
  /\ UNCHANGED pc
  /\ UNCHANGED viewerVars

OnInput == \E s \in SliderValues : onInput(s)

\* A call setThreshold(t) of the exported function by the page.
SetThresholdCall(t) ==
  /\ setThreshold(t)
  /\ lastT' = [called |-> TRUE, t |-> t, by |-> "page"]
  /\ UNCHANGED <<pc, detail>>
  /\ UNCHANGED viewerVars

SetThreshold == \E t \in ThresholdArgs : SetThresholdCall(t)

\* A call setView(view) of the exported function by the page.
SetViewCall(view) ==
  /\ setView(view)
  /\ UNCHANGED <<pc, detail>>
  /\ UNCHANGED viewerVars

SetView == \E view \in ViewArgs : SetViewCall(view)

----------------------------------------------------------------------------
(* viewer.js (src/unnamed/part_000, lines 1-414) *)

(* Strings that are compared with one another are sequences of tokens: a   *)
(* link id "l1" is <<"l1">>, the template `${source}->${target}` is        *)
(* <<source, "->", target>>, "cluster_" + idx is <<"cluster_", idx>>, and  *)
(* String(undefined) is <<"undefined">>.  A link without an id is a record *)
(* without the field id.  The stage element is taken to exist.  Colours,   *)
(* positions, labels and the click and drag handlers of the force view's   *)
(* node circles, which change no state but the detail text, are left out.  *)

\* The documents data.json may hold: a chain of two links with ids; two
\* parallel links without ids and an isolated node; a link whose target is no
\* node; two links with the same id; an object without nodes or links; null.
DocChain ==
  [ type |-> "object",
    nodes |-> << [id |-> "n1"], [id |-> "n2"], [id |-> "n3"] >>,
    links |-> << [id |-> <<"l1">>, source |-> "n1", target |-> "n2", weight |-> 80],
                 [id |-> <<"l2">>, source |-> "n2", target |-> "n3", weight |-> 30] >> ]

DocNoIds ==
  [ type |-> "object",
    nodes |-> << [id |-> "n1"], [id |-> "n2"], [id |-> "n3"] >>,
    links |-> << [source |-> "n1", target |-> "n2", weight |-> 80],
                 [source |-> "n1", target |-> "n2", weight |-> 20] >> ]

DocDangling ==
  [ type |-> "object",
    nodes |-> << [id |-> "n1"], [id |-> "n2"] >>,
    links |-> << [id |-> <<"l1">>, source |-> "n1", target |-> "n9", weight |-> 80],
                 [id |-> <<"l2">>, source |-> "n1", target |-> "n2", weight |-> 30] >> ]

DocSameId ==
  [ type |-> "object",
    nodes |-> << [id |-> "n1"], [id |-> "n2"], [id |-> "n3"] >>,
    links |-> << [id |-> <<"l1">>, source |-> "n1", target |-> "n2", weight |-> 80],
                 [id |-> <<"l1">>, source |-> "n2", target |-> "n3", weight |-> 80] >> ]

DocEmpty == [ type |-> "object" ]

DocNull == [ type |-> "null" ]

ViewerDocs == { DocChain, DocNoIds, DocDangling, DocSameId, DocEmpty, DocNull }

\* window.data before the fetch resolves
DataUndefined == [ type |-> "undefined" ]

\* !window.data is false
Truthy(d) == d.type = "object"

\* function getSafeData()
getSafeData(d) ==
  LET base == IF Truthy(d) THEN d ELSE [ type |-> "object" ]
  IN  [ nodes |-> IF "nodes" \in DOMAIN base THEN base.nodes ELSE <<>>,
        links |-> IF "links" \in DOMAIN base THEN base.links ELSE <<>> ]

\* for (let l of links) if (l.weight >= threshold) {
\*   if (adj.has(l.source)) adj.get(l.source).add(l.target);
\*   if (adj.has(l.target)) adj.get(l.target).add(l.source); }
RECURSIVE viewerAdj(_, _, _, _)
viewerAdj(adj, ls, th, i) ==
  IF i > Len(ls) THEN adj
  ELSE LET l == ls[i]
           a1 == IF l.weight >= th /\ l.source \in DOMAIN adj
                 THEN [adj EXCEPT ![l.source] = SetAdd(@, l.target)] ELSE adj
           a2 == IF l.weight >= th /\ l.target \in DOMAIN a1
                 THEN [a1 EXCEPT ![l.target] = SetAdd(@, l.source)] ELSE a1
       IN  viewerAdj(a2, ls, th, i + 1)

\* for (let nxt of nbrs) if (!visited.has(nxt)) { visited.add(nxt); queue.push(nxt); }
RECURSIVE enqueue(_, _, _)
enqueue(nbrs, j, st) ==
  IF j > Len(nbrs) THEN st
  ELSE IF nbrs[j] \in st.visited THEN enqueue(nbrs, j + 1, st)
  ELSE enqueue(nbrs, j + 1, [st EXCEPT !.visited = @ \cup {nbrs[j]},
                                       !.queue = Append(@, nbrs[j])])

\* while (queue.length) { const cur = queue.shift(); comp.push(cur);
\*   const nbrs = adj.get(cur); if (!nbrs) continue; ... }
RECURSIVE bfs(_, _)
bfs(adj, st) ==
  IF st.queue = <<>> THEN st
  ELSE LET cur == Head(st.queue)
           st1 == [st EXCEPT !.queue = Tail(@), !.comp = Append(@, cur)]
       IN  IF cur \notin DOMAIN adj THEN bfs(adj, st1)
           ELSE bfs(adj, enqueue(adj[cur], 1, st1))

\* for (let n of nodes) { if (visited.has(n.id)) continue; ...; comps.push(comp); }
RECURSIVE viewerComps(_, _, _, _)
viewerComps(ns, adj, i, visited) ==
  IF i > Len(ns) THEN <<>>
  ELSE IF ns[i].id \in visited THEN viewerComps(ns, adj, i + 1, visited)
  ELSE LET st == bfs(adj, [ queue |-> <<ns[i].id>>, comp |-> <<>>,
                            visited |-> visited \cup {ns[i].id} ])
       IN  <<st.comp>> \o viewerComps(ns, adj, i + 1, st.visited)

\* Mutant of sumW: one endpoint in the cluster is enough.
RECURSIVE sumWEitherEnd(_, _, _)
sumWEitherEnd(members, ls, i) ==
  IF i > Len(ls) THEN 0
  ELSE (IF ls[i].source \in Range(members) \/ ls[i].target \in Range(members)
        THEN ls[i].weight ELSE 0) + sumWEitherEnd(members, ls, i + 1)

\* let sumW = 0; for (let l of links)
\*   if (members.includes(l.source) && members.includes(l.target)) sumW += l.weight;
RECURSIVE sumW(_, _, _)
sumW(members, ls, i) ==
  IF i > Len(ls) THEN 0
  ELSE (IF ls[i].source \in Range(members) /\ ls[i].target \in Range(members)
        THEN ls[i].weight ELSE 0) + sumW(members, ls, i + 1)

\* comps.map((members, idx) => ({ id: "cluster_" + idx, members, weight: sumW }))
clusterList(cs, ls) ==
  [ k \in 1..Len(cs) |->
      [ id |-> <<"cluster_", k - 1>>, members |-> cs[k], weight |-> sumW(cs[k], ls, 1) ] ]

\* function clusterData(threshold), on the document d
clusterData(d, th) ==
  LET safe == getSafeData(d)
      adj == viewerAdj([ n \in { safe.nodes[i].id : i \in 1..Len(safe.nodes) } |-> <<>> ],
                       safe.links, th, 1)
  IN  [ clusters |-> clusterList(viewerComps(safe.nodes, adj, 1, {}), safe.links),
        nodes |-> safe.nodes,
        links |-> safe.links ]

\* Number(w || 0).toFixed(2): the string of w with two decimals
toFixed2(w) == [ fixed |-> w ]

\* The slices of renderPie and the circles of renderBubble, with what their
\* click handlers hand to editWeight: d.data.id (d.id) and the weight's string.
clusterElements(clusters) ==
  [ k \in 1..Len(clusters) |->
      [ type |-> "cluster", assocId |-> clusters[k].id,
        oldVal |-> toFixed2(clusters[k].weight) ] ]

\* d.id || `${d.source.id}->${d.target.id}`
assocIdOf(l) == IF "id" \in DOMAIN l THEN l.id ELSE <<l.source, "->", l.target>>

\* The lines of renderForce.
linkElements(ls) ==
  [ k \in 1..Len(ls) |->
      [ type |-> "link", assocId |-> assocIdOf(ls[k]), oldVal |-> toFixed2(ls[k].weight) ] ]

\* renderForce stops with d3.forceLink's "node not found" when nodeById.get
\* gave undefined for an endpoint of a link, after it has emptied the svg.
nodeNotFound(snap) ==
  \E i \in 1..Len(snap.links) :
    \/ snap.links[i].source \notin { snap.nodes[j].id : j \in 1..Len(snap.nodes) }
    \/ snap.links[i].target \notin { snap.nodes[j].id : j \in 1..Len(snap.nodes) }

NothingDrawn == [ view |-> "none", elements |-> <<>> ]

\* if (view === "pie") renderPie(...) else if (view === "bubble")
\* renderBubble(...) else renderForce(...)
drawView(view, snap) ==
  IF view = "pie" THEN [ view |-> "pie", elements |-> clusterElements(snap.clusters) ]
  ELSE IF view = "bubble"
    THEN [ view |-> "bubble", elements |-> clusterElements(snap.clusters) ]
  ELSE IF nodeNotFound(snap) THEN [ view |-> "force", elements |-> <<>> ]
  ELSE [ view |-> "force", elements |-> linkElements(snap.links) ]

\* Mutant of rendering: render(view) without its first line.
renderingUnguarded(d, th, view) ==
  LET snap == clusterData(d, th)
      threw == view \notin {"pie", "bubble"} /\ nodeNotFound(snap)
  IN  [ ran |-> TRUE, threw |-> threw, snapshot |-> snap.clusters,
        svg |-> drawView(view, snap),
        log |-> << [op |-> "render", view |-> view],
                   [op |-> "clusterData", th |-> th],
                   [op |-> IF threw THEN "throw" ELSE "draw", view |-> view] >> ]

\* controller.render(view) on the document d at controller.currentThreshold th:
\* whether it went past its first line, whether it threw, and what it left.
rendering(d, th, view) ==
  IF ~Truthy(d)
  THEN [ ran |-> FALSE, threw |-> FALSE, log |-> << [op |-> "render", view |-> view] >> ]
  ELSE LET snap == clusterData(d, th)
           threw == view \notin {"pie", "bubble"} /\ nodeNotFound(snap)
       IN  [ ran |-> TRUE, threw |-> threw, snapshot |-> snap.clusters,
             svg |-> drawView(view, snap),
             log |-> << [op |-> "render", view |-> view],
                        [op |-> "clusterData", th |-> th],
                        [op |-> IF threw THEN "throw" ELSE "draw", view |-> view] >> ]

\* What a render leaves in the page.
rendered(r) ==
  /\ snapshot' = IF r.ran THEN r.snapshot ELSE snapshot
  /\ svg' = IF r.ran THEN r.svg ELSE svg

ViewerViews == {"pie", "bubble", "force"}

ViewerThresholds == {0, 50, 90}

\* .then((json) => { window.data = json; controller.render(controller.currentView); })
\* and, if that render throws, the catch of lines 403-406.
FetchResolved(json) ==
  /\ fetched = "pending"
  /\ fetched' = "done"
  /\ windowData' = json
  /\ LET r == rendering(json, controller.currentThreshold, controller.currentView)
     IN  /\ rendered(r)
         /\ log' = r.log
         /\ viewerDetail' = IF r.threw THEN <<FailedToLoad>> ELSE viewerDetail
  /\ UNCHANGED <<controller, popover, currentAssocId, onDoneCb, originalVal, download>>
  /\ UNCHANGED chartVars

FetchDone == \E json \in ViewerDocs : FetchResolved(json)

\* The fetch is rejected, the response is not ok or r.json() fails.
FetchFailed ==
  /\ fetched = "pending"
  /\ fetched' = "failed"
  /\ viewerDetail' = <<FailedToLoad>>
  /\ log' = <<>>
  /\ UNCHANGED <<windowData, controller, snapshot, svg, popover, currentAssocId,
                 onDoneCb, originalVal, download>>
  /\ UNCHANGED chartVars

\* window "resize": controller.render(controller.currentView)
Resize ==
  /\ LET r == rendering(windowData, controller.currentThreshold, controller.currentView)
     IN  rendered(r) /\ log' = r.log
  /\ UNCHANGED <<fetched, windowData, controller, viewerDetail, popover,
                 currentAssocId, onDoneCb, originalVal, download>>
  /\ UNCHANGED chartVars

\* controller.render(view), called by the page on the controller initViewer returns.
RenderCall(view) ==
  /\ LET r == rendering(windowData, controller.currentThreshold, view)
     IN  rendered(r) /\ log' = r.log
  /\ UNCHANGED <<fetched, windowData, controller, viewerDetail, popover,
                 currentAssocId, onDoneCb, originalVal, download>>
  /\ UNCHANGED chartVars

PageRender == \E view \in ViewerViews : RenderCall(view)

\* The page writes the state the controller exposes to it.
AssignThreshold(t) ==
  /\ controller.currentThreshold # t
  /\ controller' = [controller EXCEPT !.currentThreshold = t]
  /\ log' = <<>>
  /\ UNCHANGED <<fetched, windowData, snapshot, svg, viewerDetail, popover,
                 currentAssocId, onDoneCb, originalVal, download>>
  /\ UNCHANGED chartVars

AssignView(view) ==
  /\ controller.currentView # view
  /\ controller' = [controller EXCEPT !.currentView = view]
  /\ log' = <<>>
  /\ UNCHANGED <<fetched, windowData, snapshot, svg, viewerDetail, popover,
                 currentAssocId, onDoneCb, originalVal, download>>
  /\ UNCHANGED chartVars

PageAssign ==
  \/ \E t \in ViewerThresholds : AssignThreshold(t)
  \/ \E view \in ViewerViews : AssignView(view)

----------------------------------------------------------------------------
(* editor.js *)

\* What the user may have left in the number input when Save is clicked: an
\* empty field, a value inside and a value outside the range the label names.
SaveInputs == {"", "0.4", "1.5"}

\* parseFloat(inputEl.value)
parseFloat(str) ==
  CASE str = "0.4" -> [ nan |-> FALSE, val |-> 40 ]
    [] str = "1.5" -> [ nan |-> FALSE, val |-> 150 ]
    [] OTHER -> [ nan |-> TRUE ]

\* () => { controller.render(controller.currentView); }
Rerender == <<"controller.render(controller.currentView)">>

\* String(x)
StringOf(x) == IF x = Null THEN <<"null">> ELSE x

\* String(link.id)
linkIdString(l) == IF "id" \in DOMAIN l THEN l.id ELSE <<"undefined">>

\* Mutant of patchLink: only the first link that matches is patched.
patchFirstOnly(ls, i, assocId, newVal) ==
  IF /\ \A j \in 1..(i - 1) : linkIdString(ls[j]) # StringOf(assocId)
     /\ \/ linkIdString(ls[i]) = StringOf(assocId)
        \/ <<ls[i].source, "->", ls[i].target>> = StringOf(assocId)
  THEN [ls[i] EXCEPT !.weight = newVal]
  ELSE ls[i]

\* The body of for (let link of window.data.links), lines 43-51, on the i-th link.
patchLink(ls, i, assocId, newVal) ==
  IF \/ linkIdString(ls[i]) = StringOf(assocId)
     \/ <<ls[i].source, "->", ls[i].target>> = StringOf(assocId)
  THEN [ls[i] EXCEPT !.weight = newVal]
  ELSE ls[i]

\* if (window.data && Array.isArray(window.data.links)) for (let link of ...) ...
patched(d, assocId, newVal) ==
  IF Truthy(d) /\ "links" \in DOMAIN d
  THEN [d EXCEPT !.links = [ i \in 1..Len(d.links) |-> patchLink(d.links, i, assocId, newVal) ]]
  ELSE d

ClosePopoverCall == [op |-> "closePopover"]

\* The end of a handler's log: closePopover(), if the handler reached it.
closing(reached) == IF reached THEN <<ClosePopoverCall>> ELSE <<>>

\* function closePopover(), unless the handler has thrown before reaching it
closePopover(reached) ==
  /\ popover' = IF reached THEN "none" ELSE popover
  /\ currentAssocId' = IF reached THEN Null ELSE currentAssocId
  /\ onDoneCb' = IF reached THEN Null ELSE onDoneCb

\* Mutant of callback: the renderers' callback draws the document as it was
\* when the handler started.
callbackStale(d, val) ==
  IF onDoneCb = Null THEN [ ran |-> FALSE, threw |-> FALSE, log |-> <<>> ]
  ELSE LET r == rendering(windowData, controller.currentThreshold, controller.currentView)
       IN  [r EXCEPT !.log = << [op |-> "callback", val |-> val] >> \o @]

\* if (onDoneCb) onDoneCb(val): the callback of the renderers, which renders
\* the document d again.
callback(d, val) ==
  IF onDoneCb = Null THEN [ ran |-> FALSE, threw |-> FALSE, log |-> <<>> ]
  ELSE LET r == rendering(d, controller.currentThreshold, controller.currentView)
       IN  [r EXCEPT !.log = << [op |-> "callback", val |-> val] >> \o @]

\* A click on the k-th slice, circle or line drawn: editWeight(assocId, oldVal,
\* callback), then updateDetail.
Click(k) ==
  /\ k \in 1..Len(svg.elements)
  /\ popover' = "block"
  /\ currentAssocId' = svg.elements[k].assocId
  /\ originalVal' = svg.elements[k].oldVal
  /\ onDoneCb' = Rerender
  /\ viewerDetail' = <<svg.elements[k].type, svg.elements[k].assocId, svg.elements[k].oldVal>>
  /\ log' = << [op |-> "editWeight", assocId |-> svg.elements[k].assocId] >>
  /\ UNCHANGED <<fetched, windowData, controller, snapshot, svg, download>>
  /\ UNCHANGED chartVars

ClickElement == \E k \in 1..3 : Click(k)

\* Mutant of Save: the NaN check of lines 36-39 is lost and the input is taken
\* as 0.
SaveUnchecked(input) ==
  /\ popover = "block"
  /\ LET newVal == IF parseFloat(input).nan THEN 0 ELSE parseFloat(input).val
         d == patched(windowData, currentAssocId, newVal)
         r == callback(d, [num |-> newVal])
     IN  /\ windowData' = d
         /\ download' = d
         /\ rendered(r)
         /\ closePopover(~r.threw)
         /\ log' = << [op |-> "download"] >> \o r.log \o closing(~r.threw)
  /\ UNCHANGED <<fetched, controller, viewerDetail, originalVal>>
  /\ UNCHANGED chartVars

\* The click handler of the Save button, with input the text of the number input.
Save(input) ==
  /\ popover = "block"
  /\ IF parseFloat(input).nan
     THEN /\ closePopover(TRUE)
          /\ log' = closing(TRUE)
          /\ UNCHANGED <<windowData, download, snapshot, svg>>
     ELSE LET newVal == parseFloat(input).val
              d == patched(windowData, currentAssocId, newVal)
              r == callback(d, [num |-> newVal])
          IN  /\ windowData' = d
              /\ download' = d
              /\ rendered(r)
              /\ closePopover(~r.threw)
              /\ log' = << [op |-> "download"] >> \o r.log \o closing(~r.threw)
  /\ UNCHANGED <<fetched, controller, viewerDetail, originalVal>>
  /\ UNCHANGED chartVars

SaveClick == \E input \in SaveInputs : Save(input)

\* The click handler of the Cancel button.
Cancel ==
  /\ popover = "block"
  /\ LET r == callback(windowData, originalVal)
     IN  /\ rendered(r)
         /\ closePopover(~r.threw)
         /\ log' = r.log \o closing(~r.threw)
  /\ UNCHANGED <<fetched, windowData, controller, viewerDetail, originalVal, download>>
  /\ UNCHANGED chartVars

ViewerInit ==
  /\ fetched = "pending"
  /\ windowData = DataUndefined
  /\ controller = [ currentView |-> "pie", currentThreshold |-> 50 ]
  /\ snapshot = <<>>
  /\ svg = NothingDrawn
  /\ viewerDetail = <<>>
  /\ popover = "absent"
  /\ currentAssocId = Null
  /\ onDoneCb = Null
  /\ originalVal = 0
  /\ download = DataUndefined
  /\ log = <<>>

ViewerNext ==
  \/ FetchDone
  \/ FetchFailed
  \/ Resize
  \/ PageRender
  \/ PageAssign
  \/ ClickElement
  \/ SaveClick
  \/ Cancel

Init ==
  /\ pc = "loading"
  /\ nodes = <<>>
  /\ links = <<>>
  /\ nodeById = <<>>
  /\ threshold = 0
  /\ currentView = "pie"
  /\ comps = <<>>
  /\ drawn = NoDraw
  /\ prev = NoCall
  /\ lastT = NoCall
  /\ detail = ""
  /\ ViewerInit

Next ==
  \/ BootLoaded
  \/ BootFailed
  \/ OnInput
  \/ SetThreshold
  \/ SetView

Spec == Init /\ [][Next]_vars

\* The viewer page.
ViewerSpec == Init /\ [][ViewerNext]_vars

----------------------------------------------------------------------------
(* Properties of buildComponents *)

NodeIds == { nodes[i].id : i \in 1..Len(nodes) }

groupOfId(n) == nodeById[n].baseGroup

SameGroup(a) == { b \in NodeIds : groupOfId(b) = groupOfId(a) }

\* Some link of weight >= th has the endpoints a and b, in either direction.
Joined(a, b, th) ==
  \E i \in 1..Len(links) :
    /\ {links[i].source, links[i].target} = {a, b}
    /\ links[i].w >= th

\* A path from a to b of links of weight >= th that stays in a's group.
PathExists(a, b, th) ==
  \E p \in SeqsUpTo(SameGroup(a), Cardinality(SameGroup(a))) :
    /\ Len(p) >= 1
    /\ p[1] = a
    /\ p[Len(p)] = b
    /\ \A k \in 1..(Len(p) - 1) : Joined(p[k], p[k + 1], th)

SameComponent(cs, a, b) == \E i \in 1..Len(cs) : a \in cs[i].ids /\ b \in cs[i].ids

\* C1: two nodes of one group are in the same component of the latest
\* buildComponents(threshold) call exactly when a path of links of weight >=
\* threshold, all inside that group, joins them (a weight equal to the threshold
\* connects); so every component is a maximal connected set of its group.
C1_ComponentsAreConnectivityClasses ==
  \A a \in NodeIds : \A b \in SameGroup(a) :
    SameComponent(comps, a, b) <=> PathExists(a, b, threshold)

\* At the maximal threshold a link of exactly that weight holds its two nodes in
\* one component while a third node of the group is in another.
C1_Witness ==
  /\ pc = "running"
  /\ threshold = MaxThreshold
  /\ \E i \in 1..Len(links) :
       /\ links[i].w = threshold
       /\ links[i].source # links[i].target
       /\ links[i].target \in SameGroup(links[i].source)
       /\ SameComponent(comps, links[i].source, links[i].target)
       /\ \E c \in SameGroup(links[i].source) :
            ~SameComponent(comps, links[i].source, c)

\* C2: all members of a cluster that buildComponents returns have one
\* baseGroup, the cluster's base.
C2_ClustersStayInOneGroup ==
  \A i \in 1..Len(drawn.comps) : \A a \in drawn.comps[i].ids :
    groupOfId(a) = drawn.comps[i].base

\* A link of weight >= threshold joins two nodes of different groups, and its
\* endpoints are in two different returned clusters.
C2_Witness ==
  /\ pc = "running"
  /\ \E i \in 1..Len(links) :
       /\ groupOfId(links[i].source) # groupOfId(links[i].target)
       /\ links[i].w >= threshold
       /\ \E j, k \in 1..Len(drawn.comps) :
            /\ j # k
            /\ links[i].source \in drawn.comps[j].ids
            /\ links[i].target \in drawn.comps[k].ids

InSomeComponent(n) == \E k \in 1..Len(comps) : n \in comps[k].ids

\* What link l adds to the component with the members ids.
Contribution(ids, l) ==
  IF ~InSomeComponent(l.source) \/ ~InSomeComponent(l.target) THEN 0
  ELSE IF l.source \in ids /\ l.target \in ids THEN l.w
  ELSE IF l.source \in ids \/ l.target \in ids THEN l.w \div 2
  ELSE 0

\* C3: the value of every component is the sum, over all links whatever their
\* weight, of the whole weight of a link with both endpoints in the component and
\* half the weight of a link with one endpoint in it and the other in another
\* component; each link of the list counts on its own.
C3_AggregateWeight ==
  \A i \in 1..Len(comps) :
    comps[i].value =
      SumSeq([ j \in 1..Len(links) |-> Contribution(comps[i].ids, links[j]) ], 1)

\* Two parallel links below the threshold cross two components.
C3_Witness ==
  /\ pc = "running"
  /\ \E i, j \in 1..Len(links) :
       /\ i # j
       /\ links[i].source = links[j].source
       /\ links[i].target = links[j].target
       /\ links[i].w < threshold
       /\ links[i].w > 0
       /\ ~SameComponent(comps, links[i].source, links[i].target)

\* C4: the returned list holds exactly the components of value > 0, in the
\* order of comps.
C4_ReturnedArePositive ==
  /\ \A i \in 1..Len(drawn.comps) :
       drawn.comps[i].value > 0 /\ drawn.comps[i] \in Range(comps)
  /\ \A i \in 1..Len(comps) : comps[i].value > 0 => comps[i] \in Range(drawn.comps)

\* A component of two nodes joined by a link of weight 0 is dropped, next to a
\* component that is returned.
C4_Witness ==
  /\ pc = "running"
  /\ Len(drawn.comps) >= 1
  /\ \E i \in 1..Len(comps) :
       /\ Cardinality(comps[i].ids) = 2
       /\ comps[i].value = 0
       /\ comps[i] \notin Range(drawn.comps)

\* C5: the components are pairwise disjoint and cover the node set: every node
\* is in exactly one component, and in at most one returned cluster.
C5_ComponentsPartitionNodes ==
  /\ \A i \in 1..Len(comps) : comps[i].ids # {} /\ comps[i].ids \subseteq NodeIds
  /\ \A n \in NodeIds : Cardinality({ i \in 1..Len(comps) : n \in comps[i].ids }) = 1
  /\ \A n \in NodeIds :
       Cardinality({ i \in 1..Len(drawn.comps) : n \in drawn.comps[i].ids }) <= 1

\* Four nodes of two groups in three components, of which one has two members.
C5_Witness ==
  /\ pc = "running"
  /\ Cardinality(NodeIds) = 4
  /\ Len(comps) = 3
  /\ \E i \in 1..Len(comps) : Cardinality(comps[i].ids) = 2

ReturnedSum == SumSeq([ i \in 1..Len(drawn.comps) |-> drawn.comps[i].value ], 1)

InReturned(n) == \E i \in 1..Len(drawn.comps) : n \in drawn.comps[i].ids

\* C6: a call at a threshold at least that of the call before it, on the same
\* nodes and links, returns clusters that are each inside one cluster returned
\* by the call before, and puts no two nodes into one component that the call
\* before had in two.
C6_RaisingOnlySplits ==
  (prev.called /\ prev.th <= threshold) =>
    /\ \A i \in 1..Len(drawn.comps) : \E j \in 1..Len(prev.returned) :
         drawn.comps[i].ids \subseteq prev.returned[j].ids
    /\ \A a, b \in NodeIds :
         SameComponent(comps, a, b) => SameComponent(prev.comps, a, b)

\* The threshold was raised and a returned cluster is a proper part of a cluster
\* returned before.
C6_Witness ==
  /\ pc = "running"
  /\ prev.called
  /\ prev.th < threshold
  /\ \E i \in 1..Len(drawn.comps) : \E j \in 1..Len(prev.returned) :
       /\ drawn.comps[i].ids \subseteq prev.returned[j].ids
       /\ drawn.comps[i].ids # prev.returned[j].ids

\* C7: at threshold 0, with every link weight in [0, 1], the values of the
\* returned clusters add up to the weights of the links whose two endpoints are
\* both in returned clusters.
C7_Conservation ==
  (threshold = 0 /\ \A i \in 1..Len(links) : links[i].w >= 0 /\ links[i].w <= 100) =>
    ReturnedSum =
      SumSeq([ i \in 1..Len(links) |->
                 IF InReturned(links[i].source) /\ InReturned(links[i].target)
                 THEN links[i].w ELSE 0 ], 1)

\* At threshold 0 a link of positive weight crosses two returned clusters, and a
\* component is dropped.
C7_Witness ==
  /\ pc = "running"
  /\ threshold = 0
  /\ Len(drawn.comps) < Len(comps)
  /\ \E i \in 1..Len(links) :
       /\ links[i].w > 0
       /\ InReturned(links[i].source)
       /\ ~SameComponent(comps, links[i].source, links[i].target)

\* Scenario A: the nodes a, b, c (apple, bread, soup) of one group, the links
\* (a, b, 0.8) and (b, c, 0.3), threshold 0.5.
ScenarioA ==
  /\ pc = "running"
  /\ [ i \in 1..Len(nodes) |-> nodes[i].label ] = <<"apple", "bread", "soup">>
  /\ \A i \in 1..Len(nodes) : nodes[i].baseGroup = "Food"
  /\ links = << [source |-> indexByLabel(nodes, "apple"),
                 target |-> indexByLabel(nodes, "bread"), w |-> 80],
                [source |-> indexByLabel(nodes, "bread"),
                 target |-> indexByLabel(nodes, "soup"), w |-> 30] >>
  /\ threshold = 50

ScenarioAB == {indexByLabel(nodes, "apple"), indexByLabel(nodes, "bread")}

ScenarioC == {indexByLabel(nodes, "soup")}

\* C8 as claimed: in Scenario A the component {a, b} has weight 0.8, the
\* component {c} has weight 0 and is dropped, and one cluster is visible.
C8_ScenarioA_AsClaimed ==
  ScenarioA =>
    /\ Len(comps) = 2
    /\ comps[1].ids = ScenarioAB /\ comps[1].value = 80
    /\ comps[2].ids = ScenarioC /\ comps[2].value = 0
    /\ Len(drawn.comps) = 1

\* C8 as amended: in Scenario A the link (b, c, 0.3), below the threshold,
\* crosses the two components and adds 0.15 to each: {a, b} has weight 0.95,
\* {c} has weight 0.15, and both clusters are visible.
C8_ScenarioA_Amended ==
  ScenarioA =>
    /\ Len(comps) = 2
    /\ comps[1].id = <<"Food", 1>>
    /\ comps[1].ids = ScenarioAB /\ comps[1].value = 95
    /\ comps[2].id = <<"Food", 2>>
    /\ comps[2].ids = ScenarioC /\ comps[2].value = 15
    /\ drawn.comps = comps

C8_Witness == ScenarioA /\ Len(drawn.comps) = 2

\* C9: once the document is loaded no call changes nodes, links or nodeById
\* (baseGroup is a field of the nodes), setView leaves the threshold alone, and a
\* call at the threshold of the call before it returns the same list: ids,
\* members, values and items, in the same order.
C9_IdempotentAndReadOnly ==
  [][ /\ pc = "running" => (nodes' = nodes /\ links' = links /\ nodeById' = nodeById)
      /\ (\E view \in ViewArgs : SetViewCall(view)) => threshold' = threshold
      /\ (prev'.called /\ prev'.th = threshold') =>
           (drawn'.comps = prev'.returned /\ comps' = prev'.comps) ]_vars

\* Two calls in a row at one threshold, the second returning two clusters.
C9_Witness ==
  /\ pc = "running"
  /\ prev.called
  /\ prev.th = threshold
  /\ Len(drawn.comps) >= 2

\* The threshold setThreshold(t) has to store.
Clamped(t) == IF t < 0 THEN 0 ELSE IF t > 96 THEN 96 ELSE t

\* C10: the stored threshold is always in [0, 0.96]; after setThreshold(t) it is
\* 0 for t < 0, 0.96 for t > 0.96 and t otherwise, and what was drawn is what
\* buildComponents returns at the stored value.
C10_ThresholdClamped ==
  /\ threshold >= 0
  /\ threshold <= 96
  /\ lastT.called =>
       /\ threshold = Clamped(lastT.t)
       /\ drawn.comps = buildComponents(threshold)

\* setThreshold was last called with an argument above the range: the upper
\* limit is stored and the chart is drawn there.
C10_Witness ==
  /\ pc = "running"
  /\ lastT.called
  /\ lastT.t > 96
  /\ threshold = 96
  /\ Len(drawn.comps) >= 1

----------------------------------------------------------------------------
(* Component ids, views and start-up of the chart page *)

\* The position of node n in the node list.
PosOf(n) == CHOOSE i \in 1..Len(nodes) : nodes[i].id = n

\* The position of the first node of component c in the node list.
FirstPos(c) == CHOOSE p \in { PosOf(n) : n \in c.ids } : \A n \in c.ids : p <= PosOf(n)

\* The rank of comps[i] among the components of its group, in the order in
\* which a scan of the node list meets them.
DiscoveryRank(i) ==
  1 + Cardinality({ j \in 1..Len(comps) :
                      /\ comps[j].base = comps[i].base
                      /\ FirstPos(comps[j]) < FirstPos(comps[i]) })

ViewModes == {"pie", "bubble", "force"}

\* C18: setView(mode), for each of the modes pie, bubble and force, makes that
\* mode the active view and draws it with the clusters of the stored threshold,
\* leaving threshold, nodes and links alone; setThreshold leaves the view alone.
C18_SetViewSelectsMode ==
  [][ /\ \A view \in ViewModes :
           SetViewCall(view) =>
             /\ currentView' = view
             /\ drawn'.view = view
             /\ drawn'.comps = buildComponentsOf(nodes, links, nodeById, threshold)
             /\ threshold' = threshold
             /\ nodes' = nodes
             /\ links' = links
      /\ ((\E t \in ThresholdArgs : SetThresholdCall(t)) \/ (\E sl \in SliderValues : onInput(sl)))
           => currentView' = currentView ]_vars

\* C20: controller.js calls setThreshold only once boot() has fetched and parsed
\* the document and initChart has returned; if boot() fails, controller.js never
\* calls it, initChart has built nothing and the failure message is shown.
C20_NoThresholdBeforeInit ==
  /\ (lastT.called /\ lastT.by = "onInput") => (pc = "running" /\ prev.called)
  /\ pc = "failed" =>
       /\ detail = FailedToLoad
       /\ ~(lastT.called /\ lastT.by = "onInput")
       /\ nodes = <<>>
       /\ ~prev.called

\* The slider's listener has run after boot(): the chart runs, initChart's own
\* render came first and the slider's threshold is stored.
C20_Witness ==
  /\ pc = "running"
  /\ lastT.called
  /\ lastT.by = "onInput"
  /\ lastT.t = 48
  /\ threshold = 48
  /\ prev.called
  /\ Len(nodes) >= 2
  /\ detail = ClickASlice

----------------------------------------------------------------------------
(* The viewer and its editor *)

\* The calls op in the log of the latest handler.
Logged(op) == { i \in 1..Len(log) : log[i].op = op }

\* C11: while no data is loaded (before the fetch resolves, after it failed, or
\* with a document that is null) every render call returns at its first line:
\* the handler calls neither clusterData nor a renderer and does not throw, and
\* nothing has been drawn or clustered.
C11_RenderIsNoOpWithoutData ==
  ~Truthy(windowData) =>
    /\ Logged("clusterData") = {}
    /\ Logged("draw") = {}
    /\ Logged("throw") = {}
    /\ svg = NothingDrawn
    /\ snapshot = <<>>

\* The fetch has failed and the page has asked for the force view since.
C11_Witness ==
  /\ fetched = "failed"
  /\ windowData = DataUndefined
  /\ log = << [op |-> "render", view |-> "force"] >>
  /\ viewerDetail = <<FailedToLoad>>

\* The links of window.data ("none" for a document without a list of links).
DataLinks(d) == IF Truthy(d) /\ "links" \in DOMAIN d THEN d.links ELSE <<>>

DataNodes(d) == IF Truthy(d) /\ "nodes" \in DOMAIN d THEN d.nodes ELSE <<>>

\* The links whose weight a step has changed.
ChangedLinks ==
  { i \in 1..Len(DataLinks(windowData)) :
      DataLinks(windowData')[i].weight # DataLinks(windowData)[i].weight }

\* The step is a Save whose input is a number.
SavedNumber == \E input \in SaveInputs : ~parseFloat(input).nan /\ Save(input)

\* The step keeps everything of the document but the weights of its links.
OnlyWeightsChange ==
  /\ windowData'.type = windowData.type
  /\ DataNodes(windowData') = DataNodes(windowData)
  /\ Len(DataLinks(windowData')) = Len(DataLinks(windowData))
  /\ \A i \in 1..Len(DataLinks(windowData)) :
       [DataLinks(windowData')[i] EXCEPT !.weight = 0]
         = [DataLinks(windowData)[i] EXCEPT !.weight = 0]

\* C12: a Save of a number, whatever element of the drawing opened the editor,
\* sets the weight of exactly one link, the one the element stands for, to the
\* number saved, keeps every other weight, every source and target and all
\* nodes, and then clusters and draws again.
C12_SaveEditsOneLink ==
  [][ SavedNumber =>
        /\ OnlyWeightsChange
        /\ \E i \in 1..Len(DataLinks(windowData)) :
             /\ assocIdOf(DataLinks(windowData)[i]) = currentAssocId
             /\ \A input \in SaveInputs :
                  Save(input) => DataLinks(windowData')[i].weight = parseFloat(input).val
             /\ ChangedLinks \subseteq {i}
        /\ Logged("clusterData")' # {}
        /\ Logged("draw")' # {} ]_vars

\* The ids of the nodes of window.data.
ViewerNodeIds == { DataNodes(windowData)[i].id : i \in 1..Len(DataNodes(windowData)) }

\* Some link of weight >= th joins the nodes a and b of the document d.
ViewerJoined(d, a, b, th) ==
  \E i \in 1..Len(DataLinks(d)) :
    /\ {DataLinks(d)[i].source, DataLinks(d)[i].target} = {a, b}
    /\ DataLinks(d)[i].weight >= th

\* A path of such links from a to b through nodes of the document.
ViewerPath(d, a, b, th) ==
  \E p \in SeqsUpTo(ViewerNodeIds, Cardinality(ViewerNodeIds)) :
    /\ Len(p) >= 1
    /\ p[1] = a
    /\ p[Len(p)] = b
    /\ \A k \in 1..(Len(p) - 1) : ViewerJoined(d, p[k], p[k + 1], th)

\* The member lists of a clustering, in order.
Memberships(cs) == [ k \in 1..Len(cs) |-> cs[k].members ]

\* The endpoints of the links whose weight a step has changed.
ChangedEndpoints ==
  UNION { {DataLinks(windowData)[i].source, DataLinks(windowData)[i].target} :
            i \in ChangedLinks }

\* The weight of link i is on different sides of th before and after the step.
Crosses(i, th) ==
  (DataLinks(windowData)[i].weight >= th) # (DataLinks(windowData')[i].weight >= th)

\* Every cluster of cs that holds no endpoint of a changed link is in ds with
\* the same members and the same weight.
UntouchedKept(cs, ds) ==
  \A k \in 1..Len(cs) :
    Range(cs[k].members) \cap ChangedEndpoints = {} =>
      \E j \in 1..Len(ds) :
        ds[j].members = cs[k].members /\ ds[j].weight = cs[k].weight

\* C13: after a Save of a number the clustering drawn is that of the document
\* with the new weight at the threshold, which the Save leaves alone; compared
\* with the clustering of the document before the edit at that threshold, only
\* clusters holding an endpoint of the edited link differ in weight, the member
\* lists differ only if the weight moved across the threshold, and they do
\* differ if the move changed which nodes are joined by a path.
C13_EditRoundTrip ==
  [][ SavedNumber =>
        LET th == controller.currentThreshold
            pre == clusterData(windowData, th).clusters
            post == clusterData(windowData', th).clusters
        IN  /\ controller' = controller
            /\ snapshot' = post
            /\ UntouchedKept(post, pre)
            /\ UntouchedKept(pre, post)
            /\ Memberships(post) # Memberships(pre) =>
                 \E i \in ChangedLinks : Crosses(i, th)
            /\ (\E a, b \in ViewerNodeIds :
                  ViewerPath(windowData, a, b, th) # ViewerPath(windowData', a, b, th))
                 => Memberships(post) # Memberships(pre) ]_vars

\* The first link of the chain was saved at 0.4, below the threshold 0.5: its
\* two nodes, one cluster before, are two clusters now.
C13_Witness ==
  /\ controller.currentThreshold = 50
  /\ Truthy(windowData)
  /\ DataNodes(windowData) = DocChain.nodes
  /\ DataLinks(windowData)[1].weight = 40
  /\ DataLinks(windowData)[2].weight = 30
  /\ Len(snapshot) = 3
  /\ Logged("callback") # {}
  /\ Logged("download") # {}
  /\ download = windowData

\* C14: every link weight of window.data is in [0, 1], and so is every value a
\* Save hands to the callback.
C14_WeightsStayInRange ==
  /\ \A i \in 1..Len(DataLinks(windowData)) :
       /\ DataLinks(windowData)[i].weight >= 0
       /\ DataLinks(windowData)[i].weight <= 100
  /\ \A k \in Logged("callback") :
       "num" \in DOMAIN log[k].val => (log[k].val.num >= 0 /\ log[k].val.num <= 100)

\* The weights of the links of ls that join two nodes of members.
InternalWeights(members, ls) ==
  [ i \in 1..Len(ls) |->
      IF ls[i].source \in members /\ ls[i].target \in members THEN ls[i].weight ELSE 0 ]

\* C15: every member of every cluster of clusterData is the id of a node, and a
\* link with an endpoint that is no node adds nothing to a cluster's weight.
C15_DanglingLinksSkipped ==
  \A k \in 1..Len(snapshot) :
    /\ Range(snapshot[k].members) \subseteq ViewerNodeIds
    /\ snapshot[k].weight =
         SumSeq(InternalWeights(Range(snapshot[k].members) \cap ViewerNodeIds,
                                DataLinks(windowData)), 1)

\* C17: a Save with an input that parseFloat turns into NaN changes no link,
\* downloads nothing, does not call the callback, draws nothing, and closes the
\* editor.
C17_NaNIsRejected ==
  [][ \A input \in SaveInputs :
        (parseFloat(input).nan /\ Save(input)) =>
          /\ windowData' = windowData
          /\ download' = download
          /\ snapshot' = snapshot
          /\ svg' = svg
          /\ log' = <<ClosePopoverCall>>
          /\ popover' = "none"
          /\ currentAssocId' = Null
          /\ onDoneCb' = Null ]_vars

\* The editor was opened on a line of the force view and closed by a Save that
\* did nothing else; no Save of a number has happened.
C17_Witness ==
  /\ log = <<ClosePopoverCall>>
  /\ popover = "none"
  /\ currentAssocId = Null
  /\ onDoneCb = Null
  /\ Len(viewerDetail) = 3
  /\ viewerDetail[1] = "link"
  /\ download = DataUndefined
  /\ windowData = DocChain

\* C19: at every threshold the weight of each cluster of clusterData is the sum
\* of the weights of the links with both endpoints among its members, whatever
\* their weight, a link between two clusters adding to neither; every node is
\* in exactly one cluster, two nodes share one exactly when a path of links of
\* weight >= threshold joins them, and clusters of weight 0 are kept.  The
\* clusters of the latest clusterData call are those of its threshold.
C19_ViewerClusterWeights ==
  /\ \A th \in ViewerThresholds :
       LET cs == clusterData(windowData, th).clusters
       IN  /\ \A k \in 1..Len(cs) :
                cs[k].weight =
                  SumSeq(InternalWeights(Range(cs[k].members), DataLinks(windowData)), 1)
           /\ \A n \in ViewerNodeIds :
                Cardinality({ k \in 1..Len(cs) : n \in Range(cs[k].members) }) = 1
           /\ \A a, b \in ViewerNodeIds :
                (\E k \in 1..Len(cs) : {a, b} \subseteq Range(cs[k].members))
                  <=> ViewerPath(windowData, a, b, th)
  /\ \A k \in Logged("clusterData") :
       snapshot = clusterData(windowData, log[k].th).clusters

\* The chain at threshold 0.5: a cluster of two nodes with the weight of its
\* link, a single node of weight 0, and the link between them in neither.
C19_Witness ==
  /\ windowData = DocChain
  /\ Logged("clusterData") # {}
  /\ Len(snapshot) = 2
  /\ snapshot[1].members = <<"n1", "n2">>
  /\ snapshot[1].weight = 80
  /\ snapshot[2].members = <<"n3">>
  /\ snapshot[2].weight = 0

\* The step is a render started by the resize listener or by the callback of
\* a Save of a number.
Rerendered == Resize \/ SavedNumber

\* C21: a render started by a window resize or by a confirmed edit draws the
\* view that the latest controller.render(view) call drew.
C21_RerenderKeepsView ==
  [][ (Truthy(windowData) /\ svg.view # "none" /\ Rerendered)
        => svg'.view = svg.view ]_vars

\* The links of window.data that the Save handler's two comparisons match with
\* currentAssocId.
MatchingLinks ==
  { i \in 1..Len(DataLinks(windowData)) :
      \/ linkIdString(DataLinks(windowData)[i]) = StringOf(currentAssocId)
      \/ <<DataLinks(windowData)[i].source, "->", DataLinks(windowData)[i].target>>
           = StringOf(currentAssocId) }

\* C22: after every Save and every Cancel the editor holds no identifier and no
\* callback, so that the callback of an editWeight call, which only Save and
\* Cancel invoke, and at most once in a handler, is invoked at most once; a Save
\* changes the weight of no link but those matching the identifier of the
\* latest editWeight call, and a Cancel changes no link.
C22_EditorSessionsEnd ==
  [][ /\ ((\E input \in SaveInputs : Save(input)) \/ Cancel) =>
           /\ currentAssocId' = Null
           /\ onDoneCb' = Null
           /\ Cardinality(Logged("callback")') <= 1
      /\ (\E input \in SaveInputs : Save(input)) =>
           /\ ChangedLinks \subseteq MatchingLinks
           /\ OnlyWeightsChange
      /\ Cancel => windowData' = windowData ]_vars

====
